---- MODULE Spec2Model ----
(***************************************************************************)
(* Verification state machine of telegram_flask_verification_bot.py.       *)
(*                                                                         *)
(* State: the process-wide dictionary pending_join_requests, the           *)
(* ADMIN_CHAT_ID setting, and one coroutine frame per handler invocation   *)
(* in flight.  Handlers are coroutines: a handler runs without             *)
(* interruption from one `await` to the next, and other handlers may run   *)
(* while it is suspended in an outbound call (send_message, reply_text,    *)
(* reply_html, approve).  Every outbound call may return or raise.  A      *)
(* handler that returns, or that an exception leaves, drops its frame.     *)
(***************************************************************************)
EXTENDS Integers, FiniteSets, Sequences, Bags, TLC

\* ---- bounds ------------------------------------------------------------
MaxUsers  == 2      \* user ids 1..MaxUsers
MaxChats  == 1      \* group ids 1..MaxChats
MaxTasks  == 2      \* handler coroutines that can be in flight together
MaxReq    == 2      \* join-request updates received in one run

Users == 1..MaxUsers
Chats == 1..MaxChats
Reqs  == 1..MaxReq

NoUser    == 0      \* update.effective_user is None
NoContact == 0      \* message.contact is None
NoId      == -1     \* contact.user_id is None (contact of a non-user)

Contacts == Users \cup {NoContact, NoId}

VARIABLES
    pending_join_requests,  \* the dict, as a set of [key, id, chat] entries
    ADMIN_CHAT_ID,          \* TRUE iff the environment sets ADMIN_CHAT_ID
    tasks,                  \* bag of the coroutine frames in flight
    approveCalls,           \* per join request: number of approve() calls
    declineCalls,           \* number of decline() calls
    keyError,               \* a dict removal hit a missing key
    nextReq,                \* identity of the next ChatJoinRequest object
    promptLost,             \* history: some verification prompt has failed
    overwritten,            \* history: requests replaced by a later put
    settled                 \* history: per user, the last terminal outcome
                            \* with no join request stored since its take

vars == <<pending_join_requests, ADMIN_CHAT_ID, tasks, approveCalls,
          declineCalls, keyError,
          nextReq, promptLost, overwritten, settled>>

\* ---- the dictionary ----------------------------------------------------

HasAlways(s, u) == TRUE

\* `user.id in pending_join_requests`
Has(s, u) == \E e \in s : e.key = u

\* A dict removal (pop, del) of a key that is absent raises KeyError.
KeyPresent(s, u) == \E e \in s : e.key = u

\* pending_join_requests[user.id]
Get(s, u) == CHOOSE e \in s : e.key = u

PutAppend(s, u, r, c) == s \cup {[key |-> u, id |-> r, chat |-> c]}

PutIfAbsent(s, u, r, c) ==
    IF \E e \in s : e.key = u THEN s
    ELSE s \cup {[key |-> u, id |-> r, chat |-> c]}

\* pending_join_requests[user.id] = chat_join_request
Put(s, u, r, c) ==
    {e \in s : e.key # u} \cup {[key |-> u, id |-> r, chat |-> c]}

DelKeep(s, u) == s

DelAll(s, u) == {}

\* del pending_join_requests[user.id]
Del(s, u) == {e \in s : e.key # u}

PopKeep(s, u) == s

\* pending_join_requests.pop(user.id): the dictionary afterwards
Pop(s, u) == {e \in s : e.key # u}

ContactValidAnyUser(contact, user) == contact \in Users

\* `contact and contact.user_id == user.id`
ContactValid(contact, user) == contact # NoContact /\ contact = user

AfterApproveErrorPutBack(s, u, r, c) == Put(s, u, r, c)

\* lines 171-180: the except clause logs and replies; the dict is not written
AfterApproveError(s, u, r, c) == s

\* ---- coroutine frames --------------------------------------------------

Frame(kind, pc, user, req, chat, apprv, outcome) ==
    [kind |-> kind, pc |-> pc, user |-> user, req |-> req, chat |-> chat,
     apprv |-> apprv, outcome |-> outcome, dirty |-> FALSE]

InFlight == BagToSet(tasks)

Free == BagCardinality(tasks) < MaxTasks

Started(f)  == tasks (+) SetToBag({f})
Returned(f) == tasks (-) SetToBag({f})
Moved(f, g) == (tasks (-) SetToBag({f})) (+) SetToBag({g})

\* pcs at which a handler is suspended in a reply whose result it ignores
SimpleReplyPcs == {"reply_nopending", "reply_invalid", "reply_start",
                   "reply_reminder", "reply_help", "reply_nontext"}

Init ==
    /\ pending_join_requests = {}
    /\ ADMIN_CHAT_ID \in BOOLEAN
    /\ tasks = EmptyBag
    /\ approveCalls = [r \in Reqs |-> 0]
    /\ declineCalls = 0
    /\ keyError = FALSE
    /\ nextReq = 1
    /\ promptLost = FALSE
    /\ overwritten = {}
    /\ settled = [u \in Users |-> "none"]

\* history only: the contact-share handlers of user u that hold a taken
\* record learn that a join request of u was stored after their take
HoldsTaken(f, u) == f.kind = "contact" /\ f.user = u /\ f.pc = "approve"

\* history only: the join-request handlers of user u still sending their
\* prompt learn the same
AwaitsPrompt(f, u) == f.kind = "join" /\ f.user = u /\ f.pc = "send_prompt"

Outdated(f, u) == HoldsTaken(f, u) \/ AwaitsPrompt(f, u)

MarkDirty(u) ==
    LET D(f) == IF Outdated(f, u) THEN [f EXCEPT !.dirty = TRUE] ELSE f
        Clean(g) == [g EXCEPT !.dirty = FALSE]
    IN  [g \in {D(f) : f \in InFlight} |->
            (IF g \in InFlight THEN CopiesIn(g, tasks) ELSE 0)
          + (IF Outdated(g, u) /\ g.dirty /\ Clean(g) \in InFlight
             THEN CopiesIn(Clean(g), tasks) ELSE 0)]

\* ---- handle_join_request ----------------------------------------------

PromptFrame(u, r, c) == Frame("join", "send_prompt", u, r, c, "none", "Prompted")

JoinRequestNoStore(u, c) ==
    /\ Free /\ nextReq <= MaxReq
    /\ tasks' = MarkDirty(u) (+) SetToBag({PromptFrame(u, nextReq, c)})
    /\ settled' = [settled EXCEPT ![u] = "none"]
    /\ nextReq' = nextReq + 1
    /\ UNCHANGED <<pending_join_requests, ADMIN_CHAT_ID, approveCalls,
                   declineCalls, keyError, promptLost, overwritten>>

\* lines 64-92: store the request under user.id, then call send_message
JoinRequest(u, c) ==
    /\ Free /\ nextReq <= MaxReq
    /\ pending_join_requests' = Put(pending_join_requests, u, nextReq, c)
    /\ tasks' = MarkDirty(u) (+) SetToBag({PromptFrame(u, nextReq, c)})
    /\ overwritten' = overwritten \cup
                        {e.id : e \in {x \in pending_join_requests : x.key = u}}
    /\ settled' = [settled EXCEPT ![u] = "none"]
    /\ nextReq' = nextReq + 1
    /\ UNCHANGED <<ADMIN_CHAT_ID, approveCalls,
                   declineCalls, keyError, promptLost>>

PromptDeliveredDrops(f) ==
    /\ f.kind = "join" /\ f.pc = "send_prompt"
    /\ tasks' = Returned(f)
    /\ pending_join_requests' = Del(pending_join_requests, f.user)
    /\ UNCHANGED <<ADMIN_CHAT_ID, approveCalls, declineCalls, keyError,
                   nextReq, promptLost, overwritten, settled>>

\* lines 92-98: send_message returned
PromptDelivered(f) ==
    /\ f.kind = "join" /\ f.pc = "send_prompt"
    /\ tasks' = Returned(f)
    /\ UNCHANGED <<pending_join_requests, ADMIN_CHAT_ID, approveCalls,
                   declineCalls, keyError,
                   nextReq, promptLost, overwritten, settled>>

\* lines 99-106: send_message raised; drop the entry stored under user.id
PromptFailed(f) ==
    /\ f.kind = "join" /\ f.pc = "send_prompt"
    /\ tasks' = Returned(f)
    /\ IF Has(pending_join_requests, f.user)
       THEN IF KeyPresent(pending_join_requests, f.user)
            THEN /\ pending_join_requests' = Del(pending_join_requests, f.user)
                 /\ UNCHANGED keyError
            ELSE /\ keyError' = TRUE
                 /\ UNCHANGED pending_join_requests
       ELSE UNCHANGED <<pending_join_requests, keyError>>
    /\ promptLost' = TRUE
    /\ settled' = [settled EXCEPT ![f.user] = "promptfailed"]
    /\ UNCHANGED <<ADMIN_CHAT_ID, approveCalls, declineCalls, nextReq,
                   overwritten>>

\* ---- handle_contact_shared --------------------------------------------

ApproveFrame(u, r, c) == Frame("contact", "approve", u, r, c, "none", "none")
NoPendingFrame(u) ==
    Frame("contact", "reply_nopending", u, 0, 0, "none", "NoPendingRequest")
InvalidFrame(u) ==
    Frame("contact", "reply_invalid", u, 0, 0, "none", "InvalidContact")

\* lines 111-128 / 181-183 / 189-191: classify the contact, take the record
\* and call approve(), or call the matching reply_text
ContactShared(u, ct) ==
    /\ Free
    /\ IF ContactValid(ct, u)
       THEN IF Has(pending_join_requests, u)
            THEN IF KeyPresent(pending_join_requests, u)
                 THEN LET e == Get(pending_join_requests, u) IN
                      /\ pending_join_requests' = Pop(pending_join_requests, u)
                      /\ approveCalls' =
                            [approveCalls EXCEPT ![e.id] = @ + 1]
                      /\ tasks' = Started(ApproveFrame(u, e.id, e.chat))
                      /\ UNCHANGED keyError
                 ELSE /\ keyError' = TRUE
                      /\ UNCHANGED <<pending_join_requests, approveCalls,
                                     tasks>>
            ELSE /\ tasks' = Started(NoPendingFrame(u))
                 /\ UNCHANGED <<pending_join_requests, approveCalls, keyError>>
       ELSE /\ tasks' = Started(InvalidFrame(u))
            /\ UNCHANGED <<pending_join_requests, approveCalls, keyError>>
    /\ UNCHANGED <<ADMIN_CHAT_ID, declineCalls, nextReq, promptLost, overwritten,
                   settled>>

SuccessFrame(f) ==
    Frame("contact", "reply_success", f.user, f.req, f.chat, "ok", "Approved")
ApologyFrame(f, apprv) ==
    Frame("contact", "reply_failed", f.user, f.req, f.chat, apprv,
          "ApprovalFailed")
AdminFrame(f) ==
    Frame("contact", "admin_notify", f.user, f.req, f.chat, "ok", "Approved")

\* lines 128-138: approve() returned; call reply_text with the success text
ApproveReturned(f) ==
    /\ f.kind = "contact" /\ f.pc = "approve"
    /\ tasks' = Moved(f, SuccessFrame(f))
    /\ settled' = IF f.dirty THEN settled
                  ELSE [settled EXCEPT ![f.user] = "approved"]
    /\ UNCHANGED <<pending_join_requests, ADMIN_CHAT_ID, approveCalls,
                   declineCalls, keyError,
                   nextReq, promptLost, overwritten>>

\* lines 128, 171-180: approve() raised; call reply_text with the apology
ApproveRaised(f) ==
    /\ f.kind = "contact" /\ f.pc = "approve"
    /\ tasks' = Moved(f, ApologyFrame(f, "failed"))
    /\ pending_join_requests' =
            AfterApproveError(pending_join_requests, f.user, f.req, f.chat)
    /\ settled' = IF f.dirty THEN settled
                  ELSE [settled EXCEPT ![f.user] = "failed"]
    /\ UNCHANGED <<ADMIN_CHAT_ID, approveCalls,
                   declineCalls, keyError, nextReq, promptLost,
                   overwritten>>

SuccessReplySentAlwaysNotifies(f) ==
    /\ f.kind = "contact" /\ f.pc = "reply_success"
    /\ tasks' = Moved(f, AdminFrame(f))
    /\ UNCHANGED <<pending_join_requests, ADMIN_CHAT_ID, approveCalls,
                   declineCalls, keyError, nextReq, promptLost, overwritten,
                   settled>>

\* lines 134-169: the success reply returned; notify the admin chat if set
SuccessReplySent(f) ==
    /\ f.kind = "contact" /\ f.pc = "reply_success"
    /\ tasks' = IF ADMIN_CHAT_ID THEN Moved(f, AdminFrame(f)) ELSE Returned(f)
    /\ UNCHANGED <<pending_join_requests, ADMIN_CHAT_ID, approveCalls,
                   declineCalls, keyError,
                   nextReq, promptLost, overwritten, settled>>

\* lines 134, 171-180: the success reply raised inside the same try block;
\* the except clause sends the apology
SuccessReplyRaised(f) ==
    /\ f.kind = "contact" /\ f.pc = "reply_success"
    /\ tasks' = Moved(f, ApologyFrame(f, f.apprv))
    /\ pending_join_requests' =
            AfterApproveError(pending_join_requests, f.user, f.req, f.chat)
    /\ UNCHANGED <<ADMIN_CHAT_ID, approveCalls,
                   declineCalls, keyError, nextReq, promptLost,
                   overwritten, settled>>

\* lines 160-165: the admin notification returned
AdminNotified(f) ==
    /\ f.kind = "contact" /\ f.pc = "admin_notify"
    /\ tasks' = Returned(f)
    /\ UNCHANGED <<pending_join_requests, ADMIN_CHAT_ID, approveCalls,
                   declineCalls, keyError,
                   nextReq, promptLost, overwritten, settled>>

AdminNotifyRaisedEscapes(f) ==
    /\ f.kind = "contact" /\ f.pc = "admin_notify"
    /\ tasks' = Moved(f, ApologyFrame(f, f.apprv))
    /\ UNCHANGED <<pending_join_requests, ADMIN_CHAT_ID, approveCalls,
                   declineCalls, keyError, nextReq, promptLost, overwritten,
                   settled>>

\* lines 166-167: the admin notification raised; logged only
AdminNotifyRaised(f) ==
    /\ f.kind = "contact" /\ f.pc = "admin_notify"
    /\ tasks' = Returned(f)
    /\ UNCHANGED <<pending_join_requests, ADMIN_CHAT_ID, approveCalls,
                   declineCalls, keyError,
                   nextReq, promptLost, overwritten, settled>>

\* lines 176-180: the apology returned
ApologySent(f) ==
    /\ f.kind = "contact" /\ f.pc = "reply_failed"
    /\ tasks' = Returned(f)
    /\ UNCHANGED <<pending_join_requests, ADMIN_CHAT_ID, approveCalls,
                   declineCalls, keyError,
                   nextReq, promptLost, overwritten, settled>>

\* lines 176-180: the apology raised inside the except clause; the exception
\* leaves the handler
ApologyRaised(f) ==
    /\ f.kind = "contact" /\ f.pc = "reply_failed"
    /\ tasks' = Returned(f)
    /\ UNCHANGED <<pending_join_requests, ADMIN_CHAT_ID, approveCalls,
                   declineCalls, keyError,
                   nextReq, promptLost, overwritten, settled>>

\* ---- start --------------------------------------------------------------

GreetingFrame(u) ==
    Frame("start", "reply_start", u, 0, 0, "none", "StartGreeting")

\* lines 52-60: greet the user, or log when the update has no user
StartCommand(u) ==
    /\ Free
    /\ tasks' = IF u # NoUser THEN Started(GreetingFrame(u)) ELSE tasks
    /\ UNCHANGED <<pending_join_requests, ADMIN_CHAT_ID, approveCalls,
                   declineCalls, keyError,
                   nextReq, promptLost, overwritten, settled>>

\* ---- fallback_message_handler -----------------------------------------

ReminderFrame(u) ==
    Frame("text", "reply_reminder", u, 0, 0, "none", "PromptReminder")
HelpFrame(u) == Frame("text", "reply_help", u, 0, 0, "none", "DefaultHelp")
NonTextFrame(u) == Frame("text", "reply_nontext", u, 0, 0, "none", "NonText")

FallbackMessageConsumes(u, hasText) ==
    /\ Free
    /\ tasks' =
            IF u # NoUser /\ hasText
            THEN IF Has(pending_join_requests, u)
                 THEN Started(ReminderFrame(u))
                 ELSE Started(HelpFrame(u))
            ELSE IF u # NoUser
                 THEN Started(NonTextFrame(u))
                 ELSE tasks
    /\ pending_join_requests' = Pop(pending_join_requests, u)
    /\ UNCHANGED <<ADMIN_CHAT_ID, approveCalls, declineCalls, keyError,
                   nextReq, promptLost, overwritten, settled>>

\* lines 202-220: reminder for a user with an entry, default help otherwise;
\* a message without text gets the non-text reply
FallbackMessage(u, hasText) ==
    /\ Free
    /\ tasks' =
            IF u # NoUser /\ hasText
            THEN IF Has(pending_join_requests, u)
                 THEN Started(ReminderFrame(u))
                 ELSE Started(HelpFrame(u))
            ELSE IF u # NoUser
                 THEN Started(NonTextFrame(u))
                 ELSE tasks
    /\ UNCHANGED <<pending_join_requests, ADMIN_CHAT_ID, approveCalls,
                   declineCalls, keyError,
                   nextReq, promptLost, overwritten, settled>>

\* ---- replies whose result no handler inspects --------------------------

\* lines 54, 183, 191, 205, 215, 218: the reply returned
ReplySent(f) ==
    /\ f.pc \in SimpleReplyPcs
    /\ tasks' = Returned(f)
    /\ UNCHANGED <<pending_join_requests, ADMIN_CHAT_ID, approveCalls,
                   declineCalls, keyError,
                   nextReq, promptLost, overwritten, settled>>

\* lines 54, 183, 191, 205, 215, 218: the reply raised; the exception leaves
\* the handler
ReplyRaised(f) ==
    /\ f.pc \in SimpleReplyPcs
    /\ tasks' = Returned(f)
    /\ UNCHANGED <<pending_join_requests, ADMIN_CHAT_ID, approveCalls,
                   declineCalls, keyError,
                   nextReq, promptLost, overwritten, settled>>

\* ---- the program -------------------------------------------------------

Next ==
    \/ \E u \in Users, c \in Chats : JoinRequest(u, c)
    \/ \E f \in InFlight : PromptDelivered(f)
    \/ \E f \in InFlight : PromptFailed(f)
    \/ \E u \in Users, ct \in Contacts : ContactShared(u, ct)
    \/ \E f \in InFlight : ApproveReturned(f)
    \/ \E f \in InFlight : ApproveRaised(f)
    \/ \E f \in InFlight : SuccessReplySent(f)
    \/ \E f \in InFlight : SuccessReplyRaised(f)
    \/ \E f \in InFlight : AdminNotified(f)
    \/ \E f \in InFlight : AdminNotifyRaised(f)
    \/ \E f \in InFlight : ApologySent(f)
    \/ \E f \in InFlight : ApologyRaised(f)
    \/ \E u \in Users \cup {NoUser} : StartCommand(u)
    \/ \E u \in Users \cup {NoUser}, hasText \in BOOLEAN :
            FallbackMessage(u, hasText)
    \/ \E f \in InFlight : ReplySent(f)
    \/ \E f \in InFlight : ReplyRaised(f)

Spec == Init /\ [][Next]_vars

TypeOK ==
    /\ \A e \in pending_join_requests :
            e.key \in Users /\ e.id \in Reqs /\ e.chat \in Chats
    /\ ADMIN_CHAT_ID \in BOOLEAN
    /\ IsABag(tasks) /\ BagCardinality(tasks) <= MaxTasks
    /\ \A r \in Reqs : approveCalls[r] \in Nat
    /\ nextReq \in 1..(MaxReq + 1)

\* ---- properties ---------------------------------------------------------

Entries(s, u) == {e \in s : e.key = u}

\* C1: a contact-share whose contact is missing or names another id than the
\* sender leaves the dict and every approve() count as they were; its only
\* effect is the InvalidContact reply, and an entry of the sender stays.
C1_InvalidContactNoEffect ==
    [][ /\ \A u \in Users, ct \in Contacts :
              (ContactShared(u, ct) /\ ct # u) =>
                  /\ pending_join_requests' = pending_join_requests
                  /\ approveCalls' = approveCalls
                  /\ tasks' = Started(InvalidFrame(u))
        /\ \A f \in InFlight :
              (f.pc = "reply_invalid" /\ tasks' = Returned(f)) =>
                  /\ pending_join_requests' = pending_join_requests
                  /\ approveCalls' = approveCalls ]_vars

C1_Witness ==
    \E f \in InFlight :
        /\ f.pc = "reply_invalid"
        /\ Entries(pending_join_requests, f.user) # {}

\* C2: approve() is called at most once per stored join request, and at most
\* one contact-share handler holds a given request, whatever the interleaving.
C2_NoDoubleApproval ==
    \A r \in Reqs :
        /\ approveCalls[r] <= 1
        /\ \A f, g \in InFlight :
              (f.kind = "contact" /\ g.kind = "contact"
                  /\ f.req = r /\ g.req = r) => (f = g /\ CopiesIn(f, tasks) = 1)

C2_Witness ==
    \E f, g \in InFlight :
        /\ f.pc = "approve" /\ g.pc = "reply_nopending"
        /\ f.user = g.user
        /\ approveCalls[f.req] = 1

C4_OutcomeDecidedByApprove ==
    \A f \in InFlight :
        f.kind = "contact" =>
            /\ (f.apprv = "ok" => f.outcome = "Approved")
            /\ (f.outcome = "ApprovalFailed" <=> f.apprv = "failed")

\* C5: the compensation of a failed prompt removes no entry other than the
\* one its own join request stored: an entry written by a later join request
\* of the same user survives the failure of the earlier prompt.
C5_InOrderPerUser ==
    [][\A f \in InFlight :
            PromptFailed(f) =>
                \A e \in pending_join_requests :
                    e \notin pending_join_requests' => e.id = f.req]_vars

\* C6: when the verification prompt of a join request fails, the dict holds
\* no entry for that user when the handler returns, and none until the next
\* join request of that user.
C6_PromptFailureDiscards ==
    /\ [](\A u \in Users :
            settled[u] = "promptfailed" =>
                Entries(pending_join_requests, u) = {})
    /\ [][\A f \in InFlight :
            PromptFailed(f) => Entries(pending_join_requests', f.user) = {}]_vars

C6_Witness ==
    \E u \in Users :
        /\ settled[u] = "promptfailed"
        /\ tasks = EmptyBag
        /\ Entries(pending_join_requests, u) = {}

\* C7: when approve() raises, the taken record is not put back and approve()
\* is not called again for it; until the next join request of that user the
\* dict has no entry for the user and a contact-share gets NoPendingRequest.
C7_ApprovalFailureFinal ==
    /\ [](\A f \in InFlight :
            f.apprv = "failed" =>
                /\ approveCalls[f.req] = 1
                /\ \A e \in pending_join_requests : e.id # f.req)
    /\ [](\A u \in Users :
            settled[u] = "failed" => Entries(pending_join_requests, u) = {})
    /\ [][\A u \in Users :
            (settled[u] = "failed" /\ ContactShared(u, u)) =>
                /\ tasks' = Started(NoPendingFrame(u))
                /\ approveCalls' = approveCalls]_vars

C7_Witness ==
    \E f \in InFlight :
        /\ f.pc = "reply_nopending"
        /\ settled[f.user] = "failed"

\* C8: a valid contact-share of a user without an entry gets
\* NoPendingRequest; approve() is not called and the dict is unchanged.
C8_NoPendingNoEffect ==
    [][\A u \in Users :
            (ContactShared(u, u) /\ Entries(pending_join_requests, u) = {}) =>
                /\ tasks' = Started(NoPendingFrame(u))
                /\ approveCalls' = approveCalls
                /\ pending_join_requests' = pending_join_requests
                /\ keyError' = keyError]_vars

C8_Witness ==
    \E f \in InFlight :
        /\ f.pc = "reply_nopending"
        /\ nextReq = 1
        /\ pending_join_requests = {}

\* C9: a join request of a user who already has an entry replaces it: after
\* the put the user has exactly the new entry, a replaced request is never
\* approved, a valid contact-share takes the entry stored last, and while no
\* prompt failed and nothing was taken every request received is either the
\* stored one of its user or was replaced.
C9_DuplicateJoinOverwrites ==
    /\ [](\A r \in overwritten : approveCalls[r] = 0)
    /\ []((~promptLost /\ \A r \in Reqs : approveCalls[r] = 0) =>
            {e.id : e \in pending_join_requests} =
                (1..(nextReq - 1)) \ overwritten)
    /\ [][\A u \in Users, c \in Chats :
            JoinRequest(u, c) =>
                Entries(pending_join_requests', u) =
                    {[key |-> u, id |-> nextReq, chat |-> c]}]_vars
    /\ [][\A u \in Users :
            (ContactShared(u, u) /\ Entries(pending_join_requests, u) # {}) =>
                \E e \in Entries(pending_join_requests, u) :
                    /\ e.id \notin overwritten
                    /\ approveCalls'[e.id] = approveCalls[e.id] + 1
                    /\ tasks' = Started(ApproveFrame(u, e.id, e.chat))]_vars

C9_Witness ==
    \E f \in InFlight :
        /\ f.pc = "approve"
        /\ overwritten # {}
        /\ f.req \notin overwritten
        /\ ~promptLost
        /\ \A g \in InFlight : g.kind # "join"

\* C10: the dict holds at most one entry per user id in every reachable state.
C10_AtMostOnePerUser ==
    \A u \in Users : Cardinality(Entries(pending_join_requests, u)) <= 1

C10_Witness ==
    \E f, g \in InFlight :
        /\ f.kind = "join" /\ g.kind = "join"
        /\ f # g /\ f.user = g.user
        /\ Cardinality(Entries(pending_join_requests, f.user)) = 1

\* C11: the admin notification never affects the approval.  Without
\* ADMIN_CHAT_ID the handler returns after the success reply; a notification
\* that raises only ends the handler.  In both cases approve() was called once
\* for the request, the success reply was sent, no apology is sent, and the
\* taken record is not back in the dict.
C11_AdminAuditHarmless ==
    /\ [](\A f \in InFlight :
            f.pc = "admin_notify" =>
                /\ ADMIN_CHAT_ID
                /\ f.apprv = "ok" /\ f.outcome = "Approved"
                /\ approveCalls[f.req] = 1
                /\ \A e \in pending_join_requests : e.id # f.req)
    /\ [][\A f \in InFlight :
            (AdminNotifyRaised(f) \/ (~ADMIN_CHAT_ID /\ SuccessReplySent(f))) =>
                /\ tasks' = Returned(f)
                /\ f.apprv = "ok" /\ f.outcome = "Approved"
                /\ approveCalls' = approveCalls /\ approveCalls[f.req] = 1
                /\ pending_join_requests' = pending_join_requests
                /\ \A e \in pending_join_requests : e.id # f.req]_vars

C11_Witness ==
    \E f \in InFlight :
        /\ f.pc = "admin_notify"
        /\ approveCalls[f.req] = 1
        /\ Entries(pending_join_requests, f.user) = {}

\* C12: a plain text or any command, /start included, gets the prompt
\* reminder when the sender has an entry and an informational help reply
\* otherwise (for /start the greeting counts as such a reply).
C12_OtherMessagesRemindOrHelp ==
    [][ /\ \A u \in Users :
              FallbackMessage(u, TRUE) =>
                  tasks' = Started(IF Entries(pending_join_requests, u) # {}
                                   THEN ReminderFrame(u) ELSE HelpFrame(u))
        /\ \A u \in Users :
              StartCommand(u) =>
                  IF Entries(pending_join_requests, u) # {}
                  THEN tasks' = Started(ReminderFrame(u))
                  ELSE tasks' \in {Started(HelpFrame(u)),
                                   Started(GreetingFrame(u))} ]_vars

\* C13: the /start handler and the fallback text handler, from the arrival of
\* the message to the end of their reply, leave the dict as it is and call
\* neither approve() nor decline().
C13_TextAndStartFrame ==
    /\ [](declineCalls = 0)
    /\ [][ /\ \A u \in Users \cup {NoUser}, hasText \in BOOLEAN :
                (StartCommand(u) \/ FallbackMessage(u, hasText)) =>
                    /\ pending_join_requests' = pending_join_requests
                    /\ approveCalls' = approveCalls
                    /\ declineCalls' = declineCalls
           /\ \A f \in InFlight :
                (f.kind \in {"start", "text"} /\ tasks' = Returned(f)) =>
                    /\ pending_join_requests' = pending_join_requests
                    /\ approveCalls' = approveCalls
                    /\ declineCalls' = declineCalls ]_vars

C13_Witness ==
    \E f \in InFlight :
        /\ f.pc = "reply_reminder"
        /\ Entries(pending_join_requests, f.user) # {}
        /\ \E g \in InFlight : g.pc = "reply_start"

\* C14: an entry leaves the dict only by a valid own-contact share of its
\* user or by the prompt failure of a join request of its user, it is replaced
\* only by a join request of its user, and an entry appears only by a join
\* request of its user; no other step touches the dict.
C14_RecordPersists ==
    [][ /\ \A e \in pending_join_requests :
              e \notin pending_join_requests' =>
                  \/ ContactShared(e.key, e.key)
                        /\ Entries(pending_join_requests', e.key) = {}
                  \/ \E f \in InFlight :
                        /\ f.user = e.key /\ PromptFailed(f)
                        /\ Entries(pending_join_requests', e.key) = {}
                  \/ \E c \in Chats :
                        /\ JoinRequest(e.key, c)
                        /\ Entries(pending_join_requests', e.key) =
                              {[key |-> e.key, id |-> nextReq, chat |-> c]}
        /\ \A e \in pending_join_requests' :
              e \notin pending_join_requests =>
                  \E c \in Chats : JoinRequest(e.key, c) /\ e.id = nextReq ]_vars

C14_Witness ==
    \E f \in InFlight :
        /\ f.pc = "approve"
        /\ Entries(pending_join_requests, f.user) = {}
        /\ \E e \in pending_join_requests : e.key # f.user

\* C15: the success reply is sent only after approve() returned, and the
\* admin notification only after the success reply returned, approve()
\* having returned and ADMIN_CHAT_ID being set.
C15_ApproveReplyAuditOrder ==
    /\ [](\A f \in InFlight :
            /\ f.pc = "reply_success" =>
                  (f.apprv = "ok" /\ approveCalls[f.req] >= 1)
            /\ f.pc = "admin_notify" =>
                  (f.apprv = "ok" /\ approveCalls[f.req] >= 1 /\ ADMIN_CHAT_ID))
    /\ [][\A g \in BagToSet(tasks') :
            CopiesIn(g, tasks') > CopiesIn(g, tasks) =>
                /\ g.pc = "reply_success" =>
                      \E f \in InFlight : f.pc = "approve" /\ f.req = g.req
                                            /\ tasks' = Moved(f, g)
                /\ g.pc = "admin_notify" =>
                      \E f \in InFlight : f.pc = "reply_success"
                                            /\ f.req = g.req
                                            /\ tasks' = Moved(f, g)]_vars

C15_Witness ==
    \E f \in InFlight :
        /\ f.pc = "admin_notify" /\ ADMIN_CHAT_ID
        /\ \E g \in InFlight : g.pc = "reply_success" /\ g.req # f.req

\* C16: a join request stores its record before the prompt is sent.  While
\* the prompt is in flight the record is in the dict unless another event of
\* that user came in between (a later join request, a contact-share that took
\* it, a prompt failure); as long as no prompt failed, every request received
\* that was neither replaced nor taken is in the dict; and a valid
\* contact-share that finds the record approves exactly that request.
C16_StoredBeforePrompt ==
    /\ [](\A f \in InFlight :
            (f.kind = "join" /\ ~f.dirty
                /\ approveCalls[f.req] = 0
                /\ settled[f.user] # "promptfailed") =>
                    [key |-> f.user, id |-> f.req, chat |-> f.chat]
                        \in pending_join_requests)
    /\ [](~promptLost =>
            \A r \in 1..(nextReq - 1) :
                (r \notin overwritten /\ approveCalls[r] = 0) =>
                    \E e \in pending_join_requests : e.id = r)
    /\ [][\A u \in Users, c \in Chats :
            JoinRequest(u, c) =>
                /\ [key |-> u, id |-> nextReq, chat |-> c]
                        \in pending_join_requests'
                /\ PromptFrame(u, nextReq, c) \in BagToSet(tasks')]_vars
    /\ [][\A u \in Users, e \in pending_join_requests :
            (ContactShared(u, u) /\ e.key = u) =>
                /\ tasks' = Started(ApproveFrame(u, e.id, e.chat))
                /\ approveCalls'[e.id] = approveCalls[e.id] + 1]_vars

C16_Witness ==
    \E f, g \in InFlight :
        /\ f.kind = "join" /\ f.pc = "send_prompt"
        /\ g.pc = "approve" /\ g.user = f.user /\ g.req = f.req

\* C17: every approve() call is made by a contact-share whose sender u shared
\* a contact with subject id u, on the request stored under u's key; an entry
\* is stored under u's key only by a join request of u; decline() is never
\* called.
C17_ApprovalImpliesVerification ==
    /\ [](declineCalls = 0)
    /\ [][approveCalls' # approveCalls =>
            \E u \in Users :
                /\ ContactShared(u, u)
                /\ \E e \in Entries(pending_join_requests, u) :
                      /\ approveCalls' = [approveCalls EXCEPT ![e.id] = @ + 1]
                      /\ tasks' = Started(ApproveFrame(u, e.id, e.chat))]_vars
    /\ [][\A u \in Users, ct \in Contacts :
            (ContactShared(u, ct) /\ approveCalls' # approveCalls) =>
                ct = u]_vars
    /\ [][\A e \in pending_join_requests' :
            e \notin pending_join_requests =>
                \E c \in Chats : JoinRequest(e.key, c) /\ e.id = nextReq]_vars

C17_Witness ==
    \E f \in InFlight :
        /\ f.pc = "reply_success"
        /\ \E e \in pending_join_requests :
                e.key # f.user /\ approveCalls[e.id] = 0

\* C18: a step of a handler of user u leaves the dict entries of every other
\* user as they were.
C18_PerUserIsolation ==
    [][ /\ \A u \in Users :
              (\/ \E c \in Chats : JoinRequest(u, c)
               \/ \E ct \in Contacts : ContactShared(u, ct)
               \/ StartCommand(u)
               \/ \E hasText \in BOOLEAN : FallbackMessage(u, hasText)) =>
                  \A v \in Users \ {u} :
                      Entries(pending_join_requests', v) =
                          Entries(pending_join_requests, v)
        /\ \A f \in InFlight :
              CopiesIn(f, tasks') < CopiesIn(f, tasks) =>
                  \A v \in Users \ {f.user} :
                      Entries(pending_join_requests', v) =
                          Entries(pending_join_requests, v) ]_vars

C18_Witness ==
    \E u \in Users :
        /\ settled[u] = "promptfailed"
        /\ \E e \in pending_join_requests : e.key # u

\* C19: neither removal (pop in the contact-share handler, del in the
\* prompt-failure path) is ever attempted on a key that is absent.
C19_NoMissingKey == keyError = FALSE

C19_Witness ==
    \E f \in InFlight, u \in Users :
        /\ f.pc = "approve" /\ f.user = u
        /\ settled[u] = "promptfailed"
        /\ Entries(pending_join_requests, u) = {}

====
